---- MODULE Spec2Model ----
(***************************************************************************)
(* Model of the writing-feedback page (src/src/app/page.tsx): the state of *)
(* the Home component, its event handlers, and the snippet locator         *)
(* renderHighlightedText; and of extractJson, the function of the route    *)
(* handlers (src/src/app/api) that turns the model's response text into a  *)
(* list of records.                                                        *)
(*                                                                         *)
(* JavaScript strings are sequences of one-character strings.  An id      *)
(* `orwell-${index}-${Date.now()}` is the tuple <<kind, index, time>>: the *)
(* template is injective in its three holes.                               *)
(***************************************************************************)
EXTENDS Integers, Sequences, FiniteSets, TLC

VARIABLES
    inputText,           \* useState<string>("")                 page.tsx:45
    orwellAnalysis,      \* OrwellAnalysisResult[] | null        page.tsx:48
    isOrwellLoading,     \*                                      page.tsx:51
    orwellError,         \* string | null                        page.tsx:52
    generalAnalysis,     \* GeneralAnalysisResult[] | null       page.tsx:55
    isGeneralLoading,    \*                                      page.tsx:58
    generalError,        \* string | null                        page.tsx:59
    resolvedIds,         \* Set<string>                          page.tsx:62
    activeAnalysisView,  \* "orwell" | "general"                 page.tsx:65
    pending,             \* the fetch in flight: its route and the text sent
    lastEvent,           \* history of the handler that ran last: "resolved",
                         \* "unresolved", "wiped" (it began a run and emptied
                         \* a non-empty resolvedIds), "stored" (it stored a
                         \* run's list) or "other"
    minted,              \* history: the ids minted by the runs completed so far
    locText,             \* locator harness: textToRender
    locData,             \* locator harness: analysisData
    locResult,           \* locator harness: the value returned
    rawArray,            \* extractor harness: the array the response encodes
    responseText,        \* extractor harness: the text of the model's response
    extracted,           \* extractor harness: the steps of extractJson
    routeAnswer          \* route harness: the response of the POST handler

vars == <<inputText, orwellAnalysis, isOrwellLoading, orwellError,
          generalAnalysis, isGeneralLoading, generalError, resolvedIds,
          activeAnalysisView, pending, lastEvent, minted,
          locText, locData, locResult,
          rawArray, responseText, extracted, routeAnswer>>

pageVars == <<inputText, orwellAnalysis, isOrwellLoading, orwellError,
              generalAnalysis, isGeneralLoading, generalError, resolvedIds,
              activeAnalysisView, pending, lastEvent, minted>>

locVars == <<locText, locData, locResult>>

routeVars == <<rawArray, responseText, extracted, routeAnswer>>

-----------------------------------------------------------------------------
(* Bounds                                                                  *)

MaxTextLen == 2      \* longest text typed into the page's textarea
LocMaxTextLen == 3   \* longest text handed to the locator harness
LocMaxRecs == 2      \* longest annotation list handed to the locator harness
StoreMaxIndex == 1   \* largest index in the ids handed to the store harness

-----------------------------------------------------------------------------
(* Strings                                                                 *)

\* The characters texts are made of; " " is the only white space.
PageChars == {"a", "b"}
LocChars == {"a", "A", "b", "."}

\* String.prototype.toLowerCase, per character.
LowerChar(c) == CASE c = "A" -> "a" [] c = "B" -> "b" [] OTHER -> c

\* String.prototype.toUpperCase, per character: what the regex engine's
\* Canonicalize applies under the "i" flag.
UpperChar(c) == CASE c = "a" -> "A" [] c = "b" -> "B" [] OTHER -> c

toLowerCase(s) == [i \in 1..Len(s) |-> LowerChar(s[i])]

\* JavaScript's s.substring(from, to), 0-based, `to` exclusive.
substring(s, from, to) == SubSeq(s, from + 1, to)

RECURSIVE trimStart(_)
trimStart(s) ==
    IF s # <<>> /\ Head(s) = " " THEN trimStart(Tail(s)) ELSE s

RECURSIVE trimEnd(_)
trimEnd(s) ==
    IF s # <<>> /\ s[Len(s)] = " " THEN trimEnd(SubSeq(s, 1, Len(s) - 1)) ELSE s

\* String.prototype.trim
trim(s) == trimEnd(trimStart(s))

\* All strings over `chars` of length at most n.
StringsUpTo(chars, n) == UNION {[1..k -> chars] : k \in 0..n}

-----------------------------------------------------------------------------
(* Regular expressions: the subset escapeRegex and the alternation use.    *)

\* The characters escapeRegex's class [.*+?^${}()|[\]\\] lists.
RegexSpecials ==
    {".", "*", "+", "?", "^", "$", "{", "}", "(", ")", "|", "[", "]", "\\"}

\* escapeRegex: every special character gets a backslash in front of it.
RECURSIVE escapeRegex(_)
escapeRegex(string) ==
    IF string = <<>> THEN <<>>
    ELSE (IF Head(string) \in RegexSpecials
          THEN <<"\\", Head(string)>> ELSE <<Head(string)>>)
         \o escapeRegex(Tail(string))

\* One alternative of the pattern source, compiled to atoms: a backslash
\* makes the next character a literal, a bare "." matches any character,
\* any other character is a literal.
RECURSIVE CompileAlternative(_)
CompileAlternative(src) ==
    IF src = <<>> THEN <<>>
    ELSE IF Head(src) = "\\" /\ Len(src) >= 2
         THEN <<[any |-> FALSE, ch |-> src[2]]>>
              \o CompileAlternative(SubSeq(src, 3, Len(src)))
         ELSE IF Head(src) = "."
              THEN <<[any |-> TRUE, ch |-> "."]>> \o CompileAlternative(Tail(src))
              ELSE <<[any |-> FALSE, ch |-> Head(src)]>>
                   \o CompileAlternative(Tail(src))

\* AtomMatches without the "i" flag.
AtomMatchesExactCase(atom, c) == atom.any \/ atom.ch = c

\* An atom against a character under the "i" flag.
AtomMatches(atom, c) == atom.any \/ UpperChar(atom.ch) = UpperChar(c)

\* Does alternative `alt` match `text` at 0-based position `pos`?
MatchesAt(alt, text, pos) ==
    /\ pos + Len(alt) <= Len(text)
    /\ \A i \in 1..Len(alt) : AtomMatches(alt[i], text[pos + i])

NoMatch == [found |-> FALSE, index |-> 0, length |-> 0]

\* regex.exec(text) for a global regex whose lastIndex is `lastIndex`: the
\* leftmost position at or after lastIndex where an alternative matches,
\* and there the first alternative, in pattern order, that matches.
RegexExec(alts, text, lastIndex) ==
    LET hits == {p \in lastIndex..Len(text) :
                    \E k \in 1..Len(alts) : MatchesAt(alts[k], text, p)}
    IN IF hits = {} THEN NoMatch
       ELSE LET p == CHOOSE q \in hits : \A r \in hits : q <= r
                k == CHOOSE j \in 1..Len(alts) :
                        /\ MatchesAt(alts[j], text, p)
                        /\ \A i \in 1..(j - 1) : ~MatchesAt(alts[i], text, p)
            IN [found |-> TRUE, index |-> p, length |-> Len(alts[k])]

-----------------------------------------------------------------------------
(* Annotation records and ids                                              *)

\* A value of type T[] | null.
Null == [null |-> TRUE, items |-> <<>>]
Some(list) == [null |-> FALSE, items |-> list]

KindPrefix == {"orwell", "general"}

\* MakeId with the index left out of the template.
MakeIdWithoutIndex(prefix, index, time) == <<prefix, 0, time>>

\* MakeId with the same prefix for both kinds of analysis.
MakeIdWithoutPrefix(prefix, index, time) == <<"item", index, time>>

\* `${prefix}-${index}-${Date.now()}`, index counted from 0.
MakeId(prefix, index, time) == <<prefix, index, time>>

\* rawData.map((item, index) => ({ ...item, id: ... })): every item of the
\* response keeps its fields and gets an id of its own.  The model takes one
\* reading of the clock for the whole map.
WithIds(prefix, rawData, time) ==
    [i \in 1..Len(rawData) |->
        [snippet |-> rawData[i].snippet, id |-> MakeId(prefix, i - 1, time)]]

IdsOf(analysis) == {analysis.items[i].id : i \in 1..Len(analysis.items)}

-----------------------------------------------------------------------------
(* JSON values and texts (the route handlers, src/src/app/api)             *)
(*                                                                         *)
(* A JSON value is a record with a type tag; the fields a type does not    *)
(* use hold a default.  An object is the sequence of its members in        *)
(* insertion order.                                                        *)

JString(s) == [t |-> "string", s |-> s, n |-> 0, a |-> <<>>, o |-> <<>>]
JNumber(n) == [t |-> "number", s |-> <<>>, n |-> n, a |-> <<>>, o |-> <<>>]
JArray(a) == [t |-> "array", s |-> <<>>, n |-> 0, a |-> a, o |-> <<>>]
JObject(o) == [t |-> "object", s |-> <<>>, n |-> 0, a |-> <<>>, o |-> o]
JNull == [t |-> "null", s |-> <<>>, n |-> 0, a |-> <<>>, o |-> <<>>]
JTrue == [t |-> "true", s |-> <<>>, n |-> 0, a |-> <<>>, o |-> <<>>]
JFalse == [t |-> "false", s |-> <<>>, n |-> 0, a |-> <<>>, o |-> <<>>]

\* The value of an absent property, and the result of a parse that threw.
JUndefined == [t |-> "undefined", s |-> <<>>, n |-> 0, a |-> <<>>, o |-> <<>>]

Member(k, v) == [k |-> k, v |-> v]

\* item.key: the value of the member named key, undefined when the value
\* is no object or has no such member.
GetProperty(item, key) ==
    IF item.t # "object" THEN JUndefined
    ELSE LET hits == {i \in 1..Len(item.o) : item.o[i].k = key}
         IN IF hits = {} THEN JUndefined
            ELSE item.o[CHOOSE i \in hits : TRUE].v

\* obj[key] = v: the member is replaced where it stands, or appended.
SetProperty(members, key, v) ==
    IF \E i \in 1..Len(members) : members[i].k = key
    THEN [i \in 1..Len(members) |->
             IF members[i].k = key THEN Member(key, v) ELSE members[i]]
    ELSE Append(members, Member(key, v))

\* The property names of the two record shapes.
KeySnippet == <<"s", "n", "i", "p", "p", "e", "t">>
KeyRule == <<"r", "u", "l", "e">>
KeySuggestion == <<"s", "u", "g", "g", "e", "s", "t", "i", "o", "n">>
KeyCategory == <<"c", "a", "t", "e", "g", "o", "r", "y">>
KeyFeedback == <<"f", "e", "e", "d", "b", "a", "c", "k">>

Digits == <<"0", "1", "2", "3", "4", "5", "6", "7", "8", "9">>
IsDigit(c) == \E d \in 1..10 : Digits[d] = c
DigitValue(c) == (CHOOSE d \in 1..10 : Digits[d] = c) - 1

\* The white space of \s, of trim() and of the JSON grammar: the texts of
\* the model hold no other white space than " ".
WhiteSpace == {" "}

\* The decimal digits of a natural number.
RECURSIVE NatToString(_)
NatToString(n) ==
    IF n < 10 THEN <<Digits[n + 1]>>
    ELSE NatToString(n \div 10) \o <<Digits[(n % 10) + 1]>>

\* `sep` between the elements of a sequence of strings.
RECURSIVE JoinStrings(_, _)
JoinStrings(strings, sep) ==
    IF strings = <<>> THEN <<>>
    ELSE IF Len(strings) = 1 THEN strings[1]
    ELSE strings[1] \o sep \o JoinStrings(Tail(strings), sep)

\* A string between double quotes; the strings of the model hold no
\* character that JSON.stringify would escape.
Quoted(s) == <<"\"">> \o s \o <<"\"">>

\* JSON.stringify(value): no white space between the tokens.
RECURSIVE Stringify(_)
Stringify(value) ==
    CASE value.t = "string" -> Quoted(value.s)
      [] value.t = "number" ->
            IF value.n < 0 THEN <<"-">> \o NatToString(0 - value.n)
            ELSE NatToString(value.n)
      [] value.t = "array" ->
            <<"[">> \o JoinStrings([i \in 1..Len(value.a) |-> Stringify(value.a[i])],
                                   <<",">>) \o <<"]">>
      [] value.t = "object" ->
            <<"{">> \o JoinStrings([i \in 1..Len(value.o) |->
                                       Quoted(value.o[i].k) \o <<":">>
                                           \o Stringify(value.o[i].v)],
                                   <<",">>) \o <<"}">>
      [] value.t = "true" -> <<"t", "r", "u", "e">>
      [] value.t = "false" -> <<"f", "a", "l", "s", "e">>
      [] OTHER -> <<"n", "u", "l", "l">>

-----------------------------------------------------------------------------
(* JSON.parse: a recursive-descent parser of the JSON grammar.  Positions  *)
(* are 1-based indexes into the text.  Numbers are integers and strings    *)
(* know the escapes \" \\ and \/: the texts of the model hold no fraction,  *)
(* exponent or other escape.                                               *)

ParseFailure == [ok |-> FALSE, value |-> JUndefined, next |-> 0]
Parsed(value, next) == [ok |-> TRUE, value |-> value, next |-> next]

\* text holds `word` at position pos.
HasAt(text, pos, word) ==
    /\ pos >= 1
    /\ pos + Len(word) - 1 <= Len(text)
    /\ SubSeq(text, pos, pos + Len(word) - 1) = word

\* The first position at or after pos that holds no white space.
RECURSIVE SkipWhiteSpace(_, _)
SkipWhiteSpace(text, pos) ==
    IF pos <= Len(text) /\ text[pos] \in WhiteSpace
    THEN SkipWhiteSpace(text, pos + 1)
    ELSE pos

\* The characters of a string literal from pos, which is past the opening
\* quote, to the closing quote.
RECURSIVE ParseStringBody(_, _, _)
ParseStringBody(text, pos, acc) ==
    IF pos > Len(text) THEN ParseFailure
    ELSE IF text[pos] = "\"" THEN Parsed(JString(acc), pos + 1)
    ELSE IF text[pos] = "\\"
         THEN IF pos + 1 <= Len(text) /\ text[pos + 1] \in {"\"", "\\", "/"}
              THEN ParseStringBody(text, pos + 2, Append(acc, text[pos + 1]))
              ELSE ParseFailure
    ELSE IF text[pos] = "\n" THEN ParseFailure
    ELSE ParseStringBody(text, pos + 1, Append(acc, text[pos]))

ParseString(text, pos) ==
    IF pos <= Len(text) /\ text[pos] = "\""
    THEN ParseStringBody(text, pos + 1, <<>>)
    ELSE ParseFailure

\* The digits from pos on, as a number continuing the value acc.
RECURSIVE ParseDigits(_, _, _)
ParseDigits(text, pos, acc) ==
    IF pos <= Len(text) /\ IsDigit(text[pos])
    THEN ParseDigits(text, pos + 1, 10 * acc + DigitValue(text[pos]))
    ELSE Parsed(JNumber(acc), pos)

\* -?(0|[1-9][0-9]*)
ParseNumber(text, pos) ==
    LET negative == pos <= Len(text) /\ text[pos] = "-"
        first == IF negative THEN pos + 1 ELSE pos
    IN IF first > Len(text) \/ ~IsDigit(text[first]) THEN ParseFailure
       ELSE LET digits == IF text[first] = "0"
                          THEN Parsed(JNumber(0), first + 1)
                          ELSE ParseDigits(text, first, 0)
            IN IF negative
               THEN Parsed(JNumber(0 - digits.value.n), digits.next)
               ELSE digits

RECURSIVE ParseValue(_, _)
RECURSIVE ParseElements(_, _, _)
RECURSIVE ParseMembers(_, _, _)

\* The elements of an array from pos, the first character of an element,
\* to the closing bracket.
ParseElements(text, pos, acc) ==
    LET element == ParseValue(text, pos)
    IN IF ~element.ok THEN ParseFailure
       ELSE LET after == SkipWhiteSpace(text, element.next)
                elements == Append(acc, element.value)
            IN IF after > Len(text) THEN ParseFailure
               ELSE IF text[after] = "]" THEN Parsed(JArray(elements), after + 1)
               ELSE IF text[after] = ","
                    THEN ParseElements(text, SkipWhiteSpace(text, after + 1),
                                       elements)
               ELSE ParseFailure

\* The members of an object from pos, the opening quote of a name, to the
\* closing brace.
ParseMembers(text, pos, acc) ==
    LET name == ParseString(text, pos)
    IN IF ~name.ok THEN ParseFailure
       ELSE LET colon == SkipWhiteSpace(text, name.next)
            IN IF colon > Len(text) \/ text[colon] # ":" THEN ParseFailure
               ELSE LET v == ParseValue(text, SkipWhiteSpace(text, colon + 1))
                    IN IF ~v.ok THEN ParseFailure
                       ELSE LET after == SkipWhiteSpace(text, v.next)
                                members == SetProperty(acc, name.value.s, v.value)
                            IN IF after > Len(text) THEN ParseFailure
                               ELSE IF text[after] = "}"
                                    THEN Parsed(JObject(members), after + 1)
                               ELSE IF text[after] = ","
                                    THEN ParseMembers(text,
                                             SkipWhiteSpace(text, after + 1),
                                             members)
                               ELSE ParseFailure

\* One value from pos, the first character of the value.
ParseValue(text, pos) ==
    IF pos > Len(text) THEN ParseFailure
    ELSE IF text[pos] = "[" THEN
        LET first == SkipWhiteSpace(text, pos + 1)
        IN IF first <= Len(text) /\ text[first] = "]"
           THEN Parsed(JArray(<<>>), first + 1)
           ELSE ParseElements(text, first, <<>>)
    ELSE IF text[pos] = "{" THEN
        LET first == SkipWhiteSpace(text, pos + 1)
        IN IF first <= Len(text) /\ text[first] = "}"
           THEN Parsed(JObject(<<>>), first + 1)
           ELSE ParseMembers(text, first, <<>>)
    ELSE IF text[pos] = "\"" THEN ParseString(text, pos)
    ELSE IF text[pos] = "-" \/ IsDigit(text[pos]) THEN ParseNumber(text, pos)
    ELSE IF HasAt(text, pos, <<"n", "u", "l", "l">>) THEN Parsed(JNull, pos + 4)
    ELSE IF HasAt(text, pos, <<"t", "r", "u", "e">>) THEN Parsed(JTrue, pos + 4)
    ELSE IF HasAt(text, pos, <<"f", "a", "l", "s", "e">>)
         THEN Parsed(JFalse, pos + 5)
    ELSE ParseFailure

\* JSON.parse(text): the value, or `threw` for a SyntaxError.
JSONParse(text) ==
    LET r == ParseValue(text, SkipWhiteSpace(text, 1))
    IN IF r.ok /\ SkipWhiteSpace(text, r.next) = Len(text) + 1
       THEN [threw |-> FALSE, value |-> r.value]
       ELSE [threw |-> TRUE, value |-> JUndefined]

-----------------------------------------------------------------------------
(* extractJson: api/analyze-general/route.ts:20-83, and its copies in      *)
(* api/analyze/route.ts:23-85 and in the new-SDK general route.            *)

\* The character U+0060, written by name: the lexer of TLA+ takes no
\* grave accent inside a string.
Backtick == "backtick"

Backticks == <<Backtick, Backtick, Backtick>>
FenceOpen == Backticks \o <<"j", "s", "o", "n">>

\* The positions from which \s*``` matches: white space, then a fence.
ClosesAt(text, e) == HasAt(text, SkipWhiteSpace(text, e), Backticks)

\* /```json\s*([\s\S]*?)\s*```/ tried at position p: after the opening
\* fence \s* takes all the white space, the lazy group stops at the first
\* position from which \s*``` matches.  Giving white space back from the
\* greedy \s* opens no other match: \s*``` skips it again.
FenceMatchAt(text, p) ==
    IF ~HasAt(text, p, FenceOpen) THEN [found |-> FALSE, group |-> <<>>]
    ELSE LET start == SkipWhiteSpace(text, p + Len(FenceOpen))
             ends == {e \in start..(Len(text) + 1) : ClosesAt(text, e)}
         IN IF ends = {} THEN [found |-> FALSE, group |-> <<>>]
            ELSE LET e == CHOOSE x \in ends : \A y \in ends : x <= y
                 IN [found |-> TRUE, group |-> SubSeq(text, start, e - 1)]

\* text.match(/```json\s*([\s\S]*?)\s*```/): the match at the leftmost
\* position that has one.
FenceMatch(text) ==
    LET starts == {p \in 1..Len(text) : FenceMatchAt(text, p).found}
    IN IF starts = {} THEN [found |-> FALSE, group |-> <<>>]
       ELSE FenceMatchAt(text, CHOOSE p \in starts : \A q \in starts : p <= q)

\* The candidate of route.ts:22-35: the trimmed group when there is a
\* match and its group is not the empty string, else the trimmed text.
Candidate(text) ==
    LET jsonMatch == FenceMatch(text)
    IN IF jsonMatch.found /\ jsonMatch.group # <<>>
       THEN trim(jsonMatch.group)
       ELSE trim(text)

\* A match of /,\s*([}\]])/ begins at position c: a comma, white space,
\* and a closing brace or bracket.
TrailingCommaAt(text, c) ==
    LET close == SkipWhiteSpace(text, c + 1)
    IN /\ text[c] = ","
       /\ close <= Len(text)
       /\ text[close] \in {"}", "]"}

\* Position i lies in a match, in front of its brace or bracket.  No two
\* matches overlap: a match holds one comma, its first character.
InTrailingComma(text, i) ==
    \E c \in 1..i :
        TrailingCommaAt(text, c) /\ i < SkipWhiteSpace(text, c + 1)

\* The characters of text[lo..hi] outside the matches, in order.
RECURSIVE KeepOutsideMatches(_, _, _)
KeepOutsideMatches(text, lo, hi) ==
    IF lo > hi THEN <<>>
    ELSE IF lo = hi
         THEN IF InTrailingComma(text, lo) THEN <<>> ELSE <<text[lo]>>
    ELSE LET mid == (lo + hi) \div 2
         IN KeepOutsideMatches(text, lo, mid)
                \o KeepOutsideMatches(text, mid + 1, hi)

\* jsonString.replace(/,\s*([}\]])/g, "$1"): every match is replaced by
\* its brace or bracket, so the comma and the white space behind it go.
ReplaceTrailingCommas(text) == KeepOutsideMatches(text, 1, Len(text))

\* The callback of parsed.every, route.ts:58-64: a truthy item whose
\* snippet, category and feedback are strings.
IsAnalysisResult(item) ==
    /\ GetProperty(item, KeySnippet).t = "string"
    /\ GetProperty(item, KeyCategory).t = "string"
    /\ GetProperty(item, KeyFeedback).t = "string"

\* ValidateStructure keeping the elements that pass and dropping the rest.
ValidateDroppingInvalid(parsed) ==
    IF parsed.t = "array"
    THEN Some(SelectSeq(parsed.a, IsAnalysisResult))
    ELSE Null

\* The validation of route.ts:54-75: the parsed array when it is empty or
\* every element passes, else null.
ValidateStructure(parsed) ==
    IF /\ parsed.t = "array"
       /\ \/ Len(parsed.a) = 0
          \/ \A i \in 1..Len(parsed.a) : IsAnalysisResult(parsed.a[i])
    THEN Some(parsed.a)
    ELSE Null

\* JSON.parse was not reached, or threw.
NotParsed == [threw |-> TRUE, value |-> JUndefined]

\* The steps of extractJson(text): the candidate, the string handed to
\* JSON.parse, what JSON.parse made of it, and the value returned.
ExtractJsonSteps(text) ==
    LET candidate == Candidate(text)
    IN IF candidate = <<>>
       THEN [candidate |-> candidate, jsonString |-> candidate,
             parsed |-> NotParsed, result |-> Null]
       ELSE LET jsonString == ReplaceTrailingCommas(candidate)
                parsed == JSONParse(jsonString)
            IN [candidate |-> candidate, jsonString |-> jsonString,
                parsed |-> parsed,
                result |-> IF parsed.threw THEN Null
                           ELSE ValidateStructure(parsed.value)]

extractJson(text) == ExtractJsonSteps(text).result

-----------------------------------------------------------------------------
(* The snippet locator: renderHighlightedText, page.tsx:213-380            *)

\* [...new Set(list)]: the first occurrence of every value, in order.
RECURSIVE Distinct(_)
Distinct(list) ==
    IF list = <<>> THEN <<>>
    ELSE LET init == Distinct(SubSeq(list, 1, Len(list) - 1))
             last == list[Len(list)]
         IN IF \E i \in 1..Len(init) : init[i] = last
            THEN init ELSE Append(init, last)

\* One insertion of the stable sort by descending length: x goes after
\* every element that is at least as long.
RECURSIVE InsertByLength(_, _)
InsertByLength(sorted, x) ==
    IF sorted = <<>> THEN <<x>>
    ELSE IF Len(Head(sorted)) >= Len(x)
         THEN <<Head(sorted)>> \o InsertByLength(Tail(sorted), x)
         ELSE <<x>> \o sorted

\* SortByLengthDesc leaving the list in the order it came in.
SortSkipped(list) == list

\* uniqueSnippets.sort((a, b) => b.length - a.length); the sort is stable.
RECURSIVE SortByLengthDesc(_)
SortByLengthDesc(list) ==
    IF list = <<>> THEN <<>>
    ELSE InsertByLength(SortByLengthDesc(SubSeq(list, 1, Len(list) - 1)),
                        list[Len(list)])

\* page.tsx:237-240
UniqueSnippets(items) ==
    SortByLengthDesc(Distinct([i \in 1..Len(items) |-> items[i].snippet]))

\* new RegExp(`(${uniqueSnippets.map(escapeRegex).join("|")})`, "gi")
BuildRegex(uniqueSnippets) ==
    [k \in 1..Len(uniqueSnippets) |->
        CompileAlternative(escapeRegex(uniqueSnippets[k]))]

\* The elements of `parts`: a string, or a record with the matched text as
\* its snippet.
StringPart(s) == [object |-> FALSE, snippet |-> s, id |-> <<"", 0, 0>>]
ObjectPart(rec, displaySnippet) ==
    [object |-> TRUE, snippet |-> displaySnippet, id |-> rec.id]

\* FindSuggestion taking the last record whose snippet equals instead of
\* the first.
FindLastSuggestion(items, matchedText) ==
    LET hits == {i \in 1..Len(items) :
                    toLowerCase(items[i].snippet) = toLowerCase(matchedText)}
    IN IF hits = {} THEN 0 ELSE CHOOSE i \in hits : \A j \in hits : i >= j

\* analysisData.find(a => a.snippet.toLowerCase() === matchedText.toLowerCase()):
\* the index of the first such record, 0 when there is none.
FindSuggestion(items, matchedText) ==
    LET hits == {i \in 1..Len(items) :
                    toLowerCase(items[i].snippet) = toLowerCase(matchedText)}
    IN IF hits = {} THEN 0 ELSE CHOOSE i \in hits : \A j \in hits : i <= j

\* MatchedPart showing the record's snippet instead of the matched text.
MatchedPartInRecordCasing(items, matchedText) ==
    LET k == FindSuggestion(items, matchedText)
    IN IF k # 0 THEN ObjectPart(items[k], items[k].snippet)
       ELSE StringPart(matchedText)

\* What one match pushes for the matched text, page.tsx:260-275.
MatchedPart(items, matchedText) ==
    LET k == FindSuggestion(items, matchedText)
    IN IF k # 0
       THEN ObjectPart(items[k],
                IF toLowerCase(items[k].snippet) = toLowerCase(matchedText)
                THEN matchedText ELSE items[k].snippet)
       ELSE StringPart(matchedText)

\* The while loop of page.tsx:256-277 from the state (lastIndex, parts),
\* then the tail of page.tsx:278-280.  regex.exec leaves lastIndex where
\* it was after an empty match, so the loop comes back to the same state
\* and never ends: `diverges`.
RECURSIVE MatchLoop(_, _, _, _, _)
MatchLoop(textToRender, regex, items, lastIndex, parts) ==
    LET match == RegexExec(regex, textToRender, lastIndex)
    IN IF ~match.found
       THEN [diverges |-> FALSE,
             parts |-> IF lastIndex < Len(textToRender)
                       THEN Append(parts, StringPart(
                                substring(textToRender, lastIndex, Len(textToRender))))
                       ELSE parts]
       ELSE LET before == IF match.index > lastIndex
                          THEN Append(parts, StringPart(
                                   substring(textToRender, lastIndex, match.index)))
                          ELSE parts
                matchedText == substring(textToRender, match.index,
                                         match.index + match.length)
                pushed == Append(before, MatchedPart(items, matchedText))
            IN IF match.length = 0
               THEN [diverges |-> TRUE, parts |-> pushed]
               ELSE MatchLoop(textToRender, regex, items,
                              match.index + match.length, pushed)

\* renderHighlightedText(textToRender, analysisData, ...): the parts the
\* returned elements are mapped from, one element per part.
renderHighlightedText(textToRender, analysisData) ==
    IF analysisData.null \/ textToRender = <<>> \/ Len(analysisData.items) = 0
    THEN [diverges |-> FALSE, parts |-> <<StringPart(textToRender)>>]
    ELSE MatchLoop(textToRender, BuildRegex(UniqueSnippets(analysisData.items)),
                   analysisData.items, 0, <<>>)

\* The text of a sequence of parts, in order.
RECURSIVE ConcatParts(_)
ConcatParts(parts) ==
    IF parts = <<>> THEN <<>>
    ELSE Head(parts).snippet \o ConcatParts(Tail(parts))

\* The parts that render as an annotated span: `"id" in part`, page.tsx:292.
ObjectIndexes(parts) == {i \in 1..Len(parts) : parts[i].object}

-----------------------------------------------------------------------------
(* The page: what is on screen                                             *)

NoError == "null"
NoRequest == [route |-> "none", text |-> <<>>]

\* renderedOrwellOutput / renderedGeneralOutput, page.tsx:383-393 and
\* 489-499: null without a list, a message for an empty list, else the
\* locator's output for the current input text.
RenderedOutput(text, analysis) ==
    IF analysis.null THEN [shows |-> "null", diverges |-> FALSE, parts |-> <<>>]
    ELSE IF Len(analysis.items) = 0
         THEN [shows |-> "message", diverges |-> FALSE, parts |-> <<>>]
         ELSE LET r == renderHighlightedText(text, analysis)
              IN [shows |-> "parts", diverges |-> r.diverges, parts |-> r.parts]

renderedOrwellOutput == RenderedOutput(inputText, orwellAnalysis)
renderedGeneralOutput == RenderedOutput(inputText, generalAnalysis)

\* The tab content of page.tsx:740-808: a view's output is on screen when
\* its tab is active, its run is not loading and it has no error.
OrwellShown ==
    activeAnalysisView = "orwell" /\ ~isOrwellLoading /\ orwellError = NoError
GeneralShown ==
    activeAnalysisView = "general" /\ ~isGeneralLoading /\ generalError = NoError

\* The parts on screen.
ShownParts ==
    IF OrwellShown THEN renderedOrwellOutput.parts
    ELSE IF GeneralShown THEN renderedGeneralOutput.parts
    ELSE <<>>

\* currentResolvedIds.has(itemData.id), page.tsx:296
isResolved(id) == id \in resolvedIds

-----------------------------------------------------------------------------
(* The page: inputs                                                        *)

\* What the user types or pastes: any text up to the bound, and a text of
\* white space only.
Texts == StringsUpTo(PageChars, MaxTextLen) \cup {<<" ">>}

\* The arrays a route answers with (the records without their ids): none,
\* one record, two records with different snippets, two with the same.
Payloads ==
    { <<>>,
      <<[snippet |-> <<"a">>]>>,
      <<[snippet |-> <<"a">>], [snippet |-> <<"b">>]>>,
      <<[snippet |-> <<"a">>], [snippet |-> <<"a">>]>> }

\* The values Date.now() reads: the system's wall clock, which the page
\* does not control.
Times == {1, 2}

EmptyInputMessage == "Please paste some text to analyze."

\* The messages a failed run ends with, page.tsx:107-126 and 135-141: the
\* error of a non-ok response or of a rejected fetch, a body that is no array.
FailureMessages == {"HTTP error", "Invalid analysis format received."}

-----------------------------------------------------------------------------
(* The page: handlers                                                      *)

\* AddId starting from an empty set instead of a copy of prev.
AddIdToNewSet(prev, id) == {id}

\* AddId toggling the id.
AddIdToggles(prev, id) == IF id \in prev THEN prev \ {id} ELSE prev \cup {id}

\* The updater of handleResolve, page.tsx:70-74.
AddId(prev, id) == prev \cup {id}

\* The updater of handleUnresolve, page.tsx:77-81.
DeleteId(prev, id) == prev \ {id}

\* ClearedIds when the handlers leave the set as it is.
StaleIds == resolvedIds

\* setResolvedIds(new Set()), page.tsx:91, 97, 154 and 160: the value set.
ClearedIds == {}

\* ButtonsEnabled when the buttons are never disabled.
ButtonsAlwaysEnabled == TRUE

\* The analyze buttons, page.tsx:658 and 674.
ButtonsEnabled == ~(isOrwellLoading \/ isGeneralLoading)

\* SetInputText that also empties resolvedIds when the text becomes empty.
SetInputTextResets(text) ==
    /\ inputText' = text
    /\ resolvedIds' = IF text = <<>> THEN {} ELSE resolvedIds
    /\ lastEvent' = "other"
    /\ UNCHANGED <<orwellAnalysis, isOrwellLoading, orwellError,
                   generalAnalysis, isGeneralLoading, generalError,
                   activeAnalysisView, pending, minted>>

\* onChange of the textarea, page.tsx:650
SetInputText(text) ==
    /\ inputText' = text
    /\ lastEvent' = "other"
    /\ UNCHANGED <<orwellAnalysis, isOrwellLoading, orwellError,
                   generalAnalysis, isGeneralLoading, generalError,
                   resolvedIds, activeAnalysisView, pending, minted>>

\* The tab buttons, page.tsx:709 and 722
SetActiveAnalysisView(view) ==
    /\ activeAnalysisView' = view
    /\ lastEvent' = "other"
    /\ UNCHANGED <<inputText, orwellAnalysis, isOrwellLoading, orwellError,
                   generalAnalysis, isGeneralLoading, generalError,
                   resolvedIds, pending, minted>>

\* The list with every id minted again, at another reading of the clock.
Reminted(analysis) ==
    IF analysis.null THEN Null
    ELSE Some([i \in 1..Len(analysis.items) |->
                 [snippet |-> analysis.items[i].snippet,
                  id |-> MakeId(analysis.items[i].id[1], i - 1,
                                (analysis.items[i].id[3] % 2) + 1)]])

\* HandleResolve that builds the lists again, with fresh ids.
HandleResolveRemints(id) ==
    /\ resolvedIds' = AddId(resolvedIds, id)
    /\ orwellAnalysis' = Reminted(orwellAnalysis)
    /\ generalAnalysis' = Reminted(generalAnalysis)
    /\ lastEvent' = "resolved"
    /\ UNCHANGED <<inputText, isOrwellLoading, orwellError,
                   isGeneralLoading, generalError,
                   activeAnalysisView, pending, minted>>

\* handleResolve, page.tsx:69-75
HandleResolve(id) ==
    /\ resolvedIds' = AddId(resolvedIds, id)
    /\ lastEvent' = "resolved"
    /\ UNCHANGED <<inputText, orwellAnalysis, isOrwellLoading, orwellError,
                   generalAnalysis, isGeneralLoading, generalError,
                   activeAnalysisView, pending, minted>>

\* handleUnresolve, page.tsx:76-82
HandleUnresolve(id) ==
    /\ resolvedIds' = DeleteId(resolvedIds, id)
    /\ lastEvent' = "unresolved"
    /\ UNCHANGED <<inputText, orwellAnalysis, isOrwellLoading, orwellError,
                   generalAnalysis, isGeneralLoading, generalError,
                   activeAnalysisView, pending, minted>>

\* "Mark as Resolved" in the popover of part i on screen, page.tsx:452-461
\* and 534-542, through the wrapper of page.tsx:353-356.
ClickMarkResolved(i) ==
    LET parts == ShownParts
    IN /\ i \in ObjectIndexes(parts)
       /\ ~isResolved(parts[i].id)
       /\ HandleResolve(parts[i].id)

\* "Mark as Unresolved" in the popover of part i on screen, page.tsx:441-450
\* and 524-532, through the wrapper of page.tsx:358-361.
ClickMarkUnresolved(i) ==
    LET parts == ShownParts
    IN /\ i \in ObjectIndexes(parts)
       /\ isResolved(parts[i].id)
       /\ HandleUnresolve(parts[i].id)

\* HandleOrwellAnalyze without setOrwellError(null) at the start of a run.
HandleOrwellAnalyzeKeepsError ==
    /\ ButtonsEnabled
    /\ IF trim(inputText) = <<>>
       THEN /\ orwellError' = EmptyInputMessage
            /\ orwellAnalysis' = Null
            /\ generalAnalysis' = Null
            /\ generalError' = NoError
            /\ resolvedIds' = ClearedIds
            /\ UNCHANGED <<isOrwellLoading, pending>>
       ELSE /\ isOrwellLoading' = TRUE
            /\ orwellAnalysis' = Null
            /\ resolvedIds' = ClearedIds
            /\ pending' = [route |-> "orwell", text |-> inputText]
            /\ UNCHANGED <<orwellError, generalAnalysis, generalError>>
    /\ lastEvent' = IF resolvedIds # {} THEN "wiped" ELSE "other"
    /\ UNCHANGED <<inputText, isGeneralLoading, activeAnalysisView, minted>>

\* handleOrwellAnalyze up to its first await, page.tsx:85-106
HandleOrwellAnalyze ==
    /\ ButtonsEnabled
    /\ IF trim(inputText) = <<>>
       THEN /\ orwellError' = EmptyInputMessage
            /\ orwellAnalysis' = Null
            /\ generalAnalysis' = Null
            /\ generalError' = NoError
            /\ resolvedIds' = ClearedIds
            /\ UNCHANGED <<isOrwellLoading, pending>>
       ELSE /\ isOrwellLoading' = TRUE
            /\ orwellError' = NoError
            /\ orwellAnalysis' = Null
            /\ resolvedIds' = ClearedIds
            /\ pending' = [route |-> "orwell", text |-> inputText]
            /\ UNCHANGED <<generalAnalysis, generalError>>
    /\ lastEvent' = IF resolvedIds # {} THEN "wiped" ELSE "other"
    /\ UNCHANGED <<inputText, isGeneralLoading, activeAnalysisView, minted>>

\* handleGeneralAnalyze up to its first await, page.tsx:148-169
HandleGeneralAnalyze ==
    /\ ButtonsEnabled
    /\ IF trim(inputText) = <<>>
       THEN /\ generalError' = EmptyInputMessage
            /\ generalAnalysis' = Null
            /\ orwellAnalysis' = Null
            /\ orwellError' = NoError
            /\ resolvedIds' = ClearedIds
            /\ UNCHANGED <<isGeneralLoading, pending>>
       ELSE /\ isGeneralLoading' = TRUE
            /\ generalError' = NoError
            /\ generalAnalysis' = Null
            /\ resolvedIds' = ClearedIds
            /\ pending' = [route |-> "general", text |-> inputText]
            /\ UNCHANGED <<orwellAnalysis, orwellError>>
    /\ lastEvent' = IF resolvedIds # {} THEN "wiped" ELSE "other"
    /\ UNCHANGED <<inputText, isOrwellLoading, activeAnalysisView, minted>>

\* handleOrwellAnalyze after the fetch answered ok with an array,
\* page.tsx:120-134 and 143-145
OrwellSucceeds(rawData, time) ==
    /\ pending.route = "orwell"
    /\ orwellAnalysis' = Some(WithIds("orwell", rawData, time))
    /\ activeAnalysisView' = "orwell"
    /\ isOrwellLoading' = FALSE
    /\ pending' = NoRequest
    /\ lastEvent' = "stored"
    /\ UNCHANGED <<inputText, orwellError, generalAnalysis, isGeneralLoading,
                   generalError, resolvedIds>>

\* OrwellFails without the finally block: the loading flag stays set.
OrwellFailsKeepsLoading(message) ==
    /\ pending.route = "orwell"
    /\ orwellError' = message
    /\ orwellAnalysis' = Null
    /\ pending' = NoRequest
    /\ lastEvent' = "other"
    /\ UNCHANGED <<inputText, isOrwellLoading, generalAnalysis,
                   isGeneralLoading, generalError, resolvedIds,
                   activeAnalysisView, minted>>

\* handleOrwellAnalyze after a non-ok response, a body that is no array or
\* a rejected fetch, page.tsx:107-126 and 135-145
OrwellFails(message) ==
    /\ pending.route = "orwell"
    /\ orwellError' = message
    /\ orwellAnalysis' = Null
    /\ isOrwellLoading' = FALSE
    /\ pending' = NoRequest
    /\ lastEvent' = "other"
    /\ UNCHANGED <<inputText, generalAnalysis, isGeneralLoading, generalError,
                   resolvedIds, activeAnalysisView, minted>>

\* handleGeneralAnalyze after the fetch answered ok with an array,
\* page.tsx:183-197 and 206-208
GeneralSucceeds(rawData, time) ==
    /\ pending.route = "general"
    /\ generalAnalysis' = Some(WithIds("general", rawData, time))
    /\ activeAnalysisView' = "general"
    /\ isGeneralLoading' = FALSE
    /\ pending' = NoRequest
    /\ lastEvent' = "stored"
    /\ UNCHANGED <<inputText, generalError, orwellAnalysis, isOrwellLoading,
                   orwellError, resolvedIds>>

\* handleGeneralAnalyze after a non-ok response, a body that is no array or
\* a rejected fetch, page.tsx:170-189 and 198-208
GeneralFails(message) ==
    /\ pending.route = "general"
    /\ generalError' = message
    /\ generalAnalysis' = Null
    /\ isGeneralLoading' = FALSE
    /\ pending' = NoRequest
    /\ lastEvent' = "other"
    /\ UNCHANGED <<inputText, orwellAnalysis, isOrwellLoading, orwellError,
                   resolvedIds, activeAnalysisView, minted>>

\* The state after construction, page.tsx:45-66
PageInit ==
    /\ inputText = <<>>
    /\ orwellAnalysis = Null
    /\ isOrwellLoading = FALSE
    /\ orwellError = NoError
    /\ generalAnalysis = Null
    /\ isGeneralLoading = FALSE
    /\ generalError = NoError
    /\ resolvedIds = {}
    /\ activeAnalysisView = "orwell"
    /\ pending = NoRequest
    /\ lastEvent = "other"
    /\ minted = {}

LocIdle ==
    /\ locText = <<>>
    /\ locData = Null
    /\ locResult = [done |-> FALSE, diverges |-> FALSE, parts |-> <<>>]

NotExtracted ==
    [done |-> FALSE, candidate |-> <<>>, jsonString |-> <<>>,
     parsed |-> NotParsed, result |-> Null]

\* No response yet.
NoAnswer ==
    [done |-> FALSE, handler |-> "none", status |-> 0, error |-> "",
     hasRawResponse |-> FALSE, rawResponse |-> <<>>, body |-> JUndefined]

RouteIdle ==
    /\ rawArray = JArray(<<>>)
    /\ responseText = <<>>
    /\ extracted = NotExtracted
    /\ routeAnswer = NoAnswer

Init == PageInit /\ LocIdle /\ RouteIdle

Next ==
    \/ \E text \in Texts : SetInputText(text) /\ UNCHANGED <<locVars, routeVars>>
    \/ \E view \in {"orwell", "general"} :
          SetActiveAnalysisView(view) /\ UNCHANGED <<locVars, routeVars>>
    \/ \E i \in 1..Len(ShownParts) : ClickMarkResolved(i) /\ UNCHANGED <<locVars, routeVars>>
    \/ \E i \in 1..Len(ShownParts) : ClickMarkUnresolved(i) /\ UNCHANGED <<locVars, routeVars>>
    \/ HandleOrwellAnalyze /\ UNCHANGED <<locVars, routeVars>>
    \/ HandleGeneralAnalyze /\ UNCHANGED <<locVars, routeVars>>
    \/ \E rawData \in Payloads, time \in Times :
          OrwellSucceeds(rawData, time) /\ UNCHANGED <<minted>> /\ UNCHANGED <<locVars, routeVars>>
    \/ \E message \in FailureMessages : OrwellFails(message) /\ UNCHANGED <<locVars, routeVars>>
    \/ \E rawData \in Payloads, time \in Times :
          GeneralSucceeds(rawData, time) /\ UNCHANGED <<minted>> /\ UNCHANGED <<locVars, routeVars>>
    \/ \E message \in FailureMessages : GeneralFails(message) /\ UNCHANGED <<locVars, routeVars>>

Spec == Init /\ [][Next]_vars

-----------------------------------------------------------------------------
(* The locator on its own: renderHighlightedText applied to a text and an  *)
(* annotation list drawn from bounded sets.                                *)

LocTexts == StringsUpTo(LocChars, LocMaxTextLen)

\* The snippets of the lists handed to the locator: the empty string, one
\* character in either case, a regex metacharacter, and two characters.
LocSnippets ==
    { <<>>, <<"a">>, <<"A">>, <<"b">>, <<".">>,
      <<"a", "b">>, <<"b", "a">>, <<"a", "a">> }

LocPayloads ==
    UNION {[1..n -> {[snippet |-> s] : s \in LocSnippets}] : n \in 0..LocMaxRecs}

LocInit ==
    /\ PageInit
    /\ locText \in LocTexts
    /\ locData \in {Null} \cup {Some(WithIds("orwell", raw, 1)) : raw \in LocPayloads}
    /\ locResult = [done |-> FALSE, diverges |-> FALSE, parts |-> <<>>]
    /\ RouteIdle

\* One call of renderHighlightedText(locText, locData, ...).
Locate ==
    /\ ~locResult.done
    /\ locResult' = LET r == renderHighlightedText(locText, locData)
                    IN [done |-> TRUE, diverges |-> r.diverges, parts |-> r.parts]
    /\ UNCHANGED <<locText, locData>>
    /\ UNCHANGED <<pageVars, routeVars>>

LocNext == Locate

SpecLocator == LocInit /\ [][LocNext]_vars

-----------------------------------------------------------------------------
(* The resolution store on its own: handleResolve and handleUnresolve      *)
(* called with any id on any set of resolved ids.                          *)

StoreIds ==
    {MakeId(prefix, index, time) :
        prefix \in KindPrefix, index \in 0..StoreMaxIndex, time \in Times}

StoreInit ==
    /\ inputText = <<>>
    /\ orwellAnalysis = Null
    /\ isOrwellLoading = FALSE
    /\ orwellError = NoError
    /\ generalAnalysis = Null
    /\ isGeneralLoading = FALSE
    /\ generalError = NoError
    /\ resolvedIds \in SUBSET StoreIds
    /\ activeAnalysisView = "orwell"
    /\ pending = NoRequest
    /\ lastEvent = "other"
    /\ minted = {}
    /\ LocIdle
    /\ RouteIdle

StoreNext ==
    \/ \E id \in StoreIds : HandleResolve(id) /\ UNCHANGED <<locVars, routeVars>>
    \/ \E id \in StoreIds : HandleUnresolve(id) /\ UNCHANGED <<locVars, routeVars>>

SpecStore == StoreInit /\ [][StoreNext]_vars

-----------------------------------------------------------------------------
(* The runs of the page with the history of the ids they minted.           *)

\* The texts typed in this specification: nothing, and a text to analyze.
RunTexts == {<<>>, <<"a", "b">>}

RunsNext ==
    \/ \E text \in RunTexts : SetInputText(text) /\ UNCHANGED <<locVars, routeVars>>
    \/ HandleOrwellAnalyze /\ UNCHANGED <<locVars, routeVars>>
    \/ HandleGeneralAnalyze /\ UNCHANGED <<locVars, routeVars>>
    \/ \E rawData \in Payloads, time \in Times :
          /\ OrwellSucceeds(rawData, time)
          /\ minted' = minted \cup IdsOf(orwellAnalysis')
          /\ UNCHANGED <<locVars, routeVars>>
    \/ \E message \in FailureMessages : OrwellFails(message) /\ UNCHANGED <<locVars, routeVars>>
    \/ \E rawData \in Payloads, time \in Times :
          /\ GeneralSucceeds(rawData, time)
          /\ minted' = minted \cup IdsOf(generalAnalysis')
          /\ UNCHANGED <<locVars, routeVars>>
    \/ \E message \in FailureMessages : GeneralFails(message) /\ UNCHANGED <<locVars, routeVars>>

SpecRuns == Init /\ [][RunsNext]_vars

-----------------------------------------------------------------------------
(* Properties                                                              *)

\* The ids of a sequence of parts, part by part.
PartIds(parts) == [k \in 1..Len(parts) |-> parts[k].id]

\* The step is a call of handleResolve or handleUnresolve, by the history.
ResolveStep == lastEvent' \in {"resolved", "unresolved"}

\* A click on "Mark as Resolved" or "Mark as Unresolved" of some part.
SomeResolveClick ==
    /\ ResolveStep
    /\ \E i \in 1..Len(ShownParts) : ClickMarkResolved(i) \/ ClickMarkUnresolved(i)

\* C1: whenever renderHighlightedText returns, the texts of its parts, in
\* order, concatenate to the text it was given.
LocatorLossless ==
    (locResult.done /\ ~locResult.diverges)
        => ConcatParts(locResult.parts) = locText

\* C1 witness: a call returned at least a string part and an object part
\* whose matched text is in another casing than lower case.
LocatorLosslessWitness ==
    /\ locResult.done /\ ~locResult.diverges
    /\ \E i \in 1..Len(locResult.parts) : ~locResult.parts[i].object
    /\ \E i \in ObjectIndexes(locResult.parts) :
          locResult.parts[i].snippet # toLowerCase(locResult.parts[i].snippet)

\* C2 as claimed: any two object parts of one rendered sequence carry
\* different ids.
PairwiseDistinctIds(parts) ==
    \A i, j \in ObjectIndexes(parts) : i # j => parts[i].id # parts[j].id

RecordIdsDistinct(analysis) ==
    \A i, j \in 1..Len(analysis.items) :
        i # j => analysis.items[i].id # analysis.items[j].id

SameIdIffSameSnippet(parts) ==
    \A i, j \in ObjectIndexes(parts) :
        (parts[i].id = parts[j].id)
            <=> (toLowerCase(parts[i].snippet) = toLowerCase(parts[j].snippet))

IdsStableAcrossRenders ==
    [][((\E view \in {"orwell", "general"} : SetActiveAnalysisView(view))
          \/ SomeResolveClick)
        => \A text \in {inputText'} :
              /\ \A analysis \in {orwellAnalysis'} :
                    PartIds(RenderedOutput(text, analysis).parts)
                        = PartIds(renderedOrwellOutput.parts)
              /\ \A analysis \in {generalAnalysis'} :
                    PartIds(RenderedOutput(text, analysis).parts)
                        = PartIds(renderedGeneralOutput.parts)]_vars

\* C4 witness: spans are on screen in the render that follows a resolve.
IdsStableAcrossRendersWitness ==
    /\ lastEvent = "resolved"
    /\ ObjectIndexes(ShownParts) # {}
    /\ ObjectIndexes(renderedOrwellOutput.parts) # {}
    /\ ObjectIndexes(renderedGeneralOutput.parts) # {}

\* C5 as claimed: the ids a run mints are none of the ids minted by the
\* runs that completed before it.
IdsNeverReused ==
    [][/\ (orwellAnalysis.null /\ ~orwellAnalysis'.null)
             => IdsOf(orwellAnalysis') \cap minted = {}
       /\ (generalAnalysis.null /\ ~generalAnalysis'.null)
             => IdsOf(generalAnalysis') \cap minted = {}]_vars

\* C6: a click on either analyze button leaves resolvedIds empty, with an
\* empty input as with a text to analyze.
RunBeginsWithNoResolvedIds ==
    [][(HandleOrwellAnalyze \/ HandleGeneralAnalyze) => resolvedIds' = {}]_vars

\* C6 witness: a run was begun in a state with resolved ids, and is in
\* flight with none.
RunBeginsWithNoResolvedIdsWitness ==
    /\ lastEvent = "wiped"
    /\ isOrwellLoading \/ isGeneralLoading
    /\ resolvedIds = {}

\* C7 as claimed: when the input text goes from non-empty to empty,
\* resolvedIds is empty afterwards.
ClearingInputResets ==
    [][(inputText # <<>> /\ inputText' = <<>>) => resolvedIds' = {}]_vars

\* C7 as amended: when the input text goes from non-empty to empty,
\* resolvedIds is what it was.
ClearingInputKeepsResolvedIds ==
    [][(inputText # <<>> /\ inputText' = <<>>)
          => resolvedIds' = resolvedIds]_vars

\* C7 witness: the input is empty and ids are still resolved (no span is
\* on screen for an empty text, so they were resolved before it was
\* cleared).
ClearingInputKeepsResolvedIdsWitness ==
    /\ inputText = <<>>
    /\ resolvedIds # {}
    /\ ~orwellAnalysis.null \/ ~generalAnalysis.null

\* C8 as claimed: beginning a run of one kind leaves the status of every
\* id of the other kind's list as it was, when that list is still held.
RunBeginKeepsOtherKind ==
    [][/\ HandleOrwellAnalyze
             => \A id \in IdsOf(generalAnalysis') :
                   (id \in resolvedIds') = (id \in resolvedIds)
       /\ HandleGeneralAnalyze
             => \A id \in IdsOf(orwellAnalysis') :
                   (id \in resolvedIds') = (id \in resolvedIds)]_vars

\* C9: a click on resolve or unresolve in one kind's output leaves the
\* status of every id of the other kind's list as it was.
ResolveKeepsOtherKind ==
    [][SomeResolveClick
          => /\ OrwellShown
                   => \A id \in IdsOf(generalAnalysis) :
                         (id \in resolvedIds') = (id \in resolvedIds)
             /\ (~OrwellShown /\ GeneralShown)
                   => \A id \in IdsOf(orwellAnalysis) :
                         (id \in resolvedIds') = (id \in resolvedIds)]_vars

\* C9 witness: both lists are held, a click resolved an id of one of them,
\* and the ids of the other are all unresolved.
ResolveKeepsOtherKindWitness ==
    /\ lastEvent = "resolved"
    /\ IdsOf(orwellAnalysis) # {} /\ IdsOf(generalAnalysis) # {}
    /\ \/ /\ OrwellShown
          /\ IdsOf(orwellAnalysis) \cap resolvedIds # {}
          /\ IdsOf(generalAnalysis) \cap resolvedIds = {}
       \/ /\ GeneralShown
          /\ IdsOf(generalAnalysis) \cap resolvedIds # {}
          /\ IdsOf(orwellAnalysis) \cap resolvedIds = {}

\* C10: after handleResolve(id) the id is resolved and a second
\* handleResolve(id) would give the same set; after handleUnresolve(id) the
\* id is not resolved and a second handleUnresolve(id) would give the same
\* set.
ResolveIdempotent ==
    [][\A id \in StoreIds :
          /\ HandleResolve(id)
                => /\ id \in resolvedIds'
                   /\ AddId(resolvedIds', id) = resolvedIds'
          /\ HandleUnresolve(id)
                => /\ id \notin resolvedIds'
                   /\ DeleteId(resolvedIds', id) = resolvedIds']_vars

\* C10 witness: handleResolve ran on a set that held other ids.
ResolveIdempotentWitness ==
    /\ lastEvent = "resolved"
    /\ Cardinality(resolvedIds) >= 2
    /\ resolvedIds # StoreIds

\* The ids of the records of the lists the page holds.
HeldIds == IdsOf(orwellAnalysis) \cup IdsOf(generalAnalysis)

\* C11 as claimed: a call of handleResolve or handleUnresolve with an id of
\* no held list leaves the set of resolved ids as it was.
UnknownIdIsNoOp ==
    [][\A id \in StoreIds \ HeldIds :
          (HandleResolve(id) \/ HandleUnresolve(id))
              => resolvedIds' = resolvedIds]_vars

-----------------------------------------------------------------------------
(* Properties of the locator's matches                                     *)

\* The 0-based position in the text where part i of `parts` begins.
PartStart(parts, i) == Len(ConcatParts(SubSeq(parts, 1, i - 1)))

\* Snippet s occurs in the text at 0-based position p, case-insensitively.
OccursAt(s, text, p) ==
    /\ p + Len(s) <= Len(text)
    /\ toLowerCase(substring(text, p, p + Len(s))) = toLowerCase(s)

\* The index in `items` of the first record whose snippet is s.
FirstAppearance(items, s) ==
    CHOOSE i \in 1..Len(items) :
        /\ items[i].snippet = s
        /\ \A j \in 1..(i - 1) : items[j].snippet # s

\* The alternatives are the distinct snippets by descending length, those
\* of equal length in the order of their first appearance in the list.
LongestFirstStableOrder(items) ==
    LET u == UniqueSnippets(items)
    IN /\ {u[k] : k \in 1..Len(u)} = {items[i].snippet : i \in 1..Len(items)}
       /\ \A k, l \in 1..Len(u) :
             k < l => /\ u[k] # u[l]
                      /\ Len(u[k]) >= Len(u[l])
                      /\ Len(u[k]) = Len(u[l])
                            => FirstAppearance(items, u[k])
                                   < FirstAppearance(items, u[l])

\* C12: in a sequence the locator returned, every annotated span is as long
\* as the longest snippet of the list that occurs at the span's start
\* position, and the alternatives were tried longest first, snippets of
\* equal length in the order of their first appearance in the list.
LongestMatchWins ==
    (locResult.done /\ ~locResult.diverges /\ ~locData.null)
        => /\ LongestFirstStableOrder(locData.items)
           /\ \A i \in ObjectIndexes(locResult.parts) :
                 \A r \in 1..Len(locData.items) :
                    OccursAt(locData.items[r].snippet, locText,
                             PartStart(locResult.parts, i))
                        => Len(locData.items[r].snippet)
                               <= Len(locResult.parts[i].snippet)

\* C12 witness: the list names first a snippet and then a longer one, both
\* occur at one position of the text, and the span there is the longer one.
LongestMatchWinsWitness ==
    /\ locResult.done /\ ~locResult.diverges /\ ~locData.null
    /\ Len(locData.items) = 2
    /\ Len(locData.items[1].snippet) = 1
    /\ Len(locData.items[2].snippet) = 2
    /\ \E i \in ObjectIndexes(locResult.parts) :
          /\ OccursAt(locData.items[1].snippet, locText,
                      PartStart(locResult.parts, i))
          /\ OccursAt(locData.items[2].snippet, locText,
                      PartStart(locResult.parts, i))
          /\ Len(locResult.parts[i].snippet) = 2

-----------------------------------------------------------------------------
(* The locator on lists of two snippets, one possibly inside the other,    *)
(* and on texts long enough for their occurrences to overlap.              *)

FragMaxTextLen == 4      \* longest text handed to this harness
FragMaxSnippetLen == 3   \* longest snippet handed to this harness

FragTexts == StringsUpTo(PageChars, FragMaxTextLen)

FragSnippets == StringsUpTo(PageChars, FragMaxSnippetLen) \ {<<>>}

FragPayloads == [1..2 -> {[snippet |-> s] : s \in FragSnippets}]

FragInit ==
    /\ PageInit
    /\ locText \in FragTexts
    /\ locData \in {Some(WithIds("orwell", raw, 1)) : raw \in FragPayloads}
    /\ locResult = [done |-> FALSE, diverges |-> FALSE, parts |-> <<>>]
    /\ RouteIdle

FragNext == Locate

SpecFragments == FragInit /\ [][FragNext]_vars

\* s occurs inside l and is shorter than l.
IsProperSubstring(s, l) ==
    /\ Len(s) < Len(l)
    /\ \E k \in 0..(Len(l) - Len(s)) : substring(l, k, k + Len(s)) = s

\* The stretch [p, p + m) shares a position with the stretch [q, q + n)
\* without lying inside it.
PartiallyOverlaps(p, m, q, n) ==
    /\ p < q + n
    /\ q < p + m
    /\ ~(q <= p /\ p + m <= q + n)

\* C13 as claimed: when the list holds snippets S and L, S a proper
\* substring of L, no annotated span matched by S partially overlaps an
\* occurrence of L in the text.
ShortNeverFragmentsLong ==
    (locResult.done /\ ~locResult.diverges)
        => \A s, l \in 1..Len(locData.items) :
              IsProperSubstring(locData.items[s].snippet, locData.items[l].snippet)
                  => \A i \in ObjectIndexes(locResult.parts) :
                        toLowerCase(locResult.parts[i].snippet)
                              = toLowerCase(locData.items[s].snippet)
                          => \A q \in 0..Len(locText) :
                                OccursAt(locData.items[l].snippet, locText, q)
                                    => ~PartiallyOverlaps(
                                           PartStart(locResult.parts, i),
                                           Len(locResult.parts[i].snippet),
                                           q, Len(locData.items[l].snippet))

\* C14: in a sequence the locator returned, every annotated span shows the
\* characters of the text at the span's position, in the text's casing; the
\* record it carries is a record of the list whose snippet equals the shown
\* text when both are compared in lower case; and a non-empty snippet that
\* occurs in the text in any casing yields at least one annotated span.
CaseInsensitiveSourceCasing ==
    (locResult.done /\ ~locResult.diverges /\ ~locData.null)
        => /\ \A i \in ObjectIndexes(locResult.parts) :
                 /\ locResult.parts[i].snippet
                       = substring(locText, PartStart(locResult.parts, i),
                                   PartStart(locResult.parts, i)
                                       + Len(locResult.parts[i].snippet))
                 /\ \E r \in 1..Len(locData.items) :
                       /\ locData.items[r].id = locResult.parts[i].id
                       /\ toLowerCase(locData.items[r].snippet)
                             = toLowerCase(locResult.parts[i].snippet)
           /\ (\E r \in 1..Len(locData.items), q \in 0..Len(locText) :
                  /\ locData.items[r].snippet # <<>>
                  /\ OccursAt(locData.items[r].snippet, locText, q))
                 => ObjectIndexes(locResult.parts) # {}

\* C14 witness: a span shows text whose casing is not that of the snippet
\* of the record it carries.
CaseInsensitiveSourceCasingWitness ==
    /\ locResult.done /\ ~locResult.diverges /\ ~locData.null
    /\ \E i \in ObjectIndexes(locResult.parts), r \in 1..Len(locData.items) :
          /\ locData.items[r].id = locResult.parts[i].id
          /\ locData.items[r].snippet # locResult.parts[i].snippet
          /\ locResult.parts[i].snippet
                = substring(locText, PartStart(locResult.parts, i),
                            PartStart(locResult.parts, i)
                                + Len(locResult.parts[i].snippet))

\* C15 as claimed, for one analysis: with an empty list and a non-empty
\* text the output is the one string part holding the text; with an empty
\* text the output has no object part.
OutputFailsClosed(analysis, output) ==
    /\ (~analysis.null /\ Len(analysis.items) = 0 /\ inputText # <<>>)
          => /\ output.shows = "parts"
             /\ output.parts = <<StringPart(inputText)>>
    /\ inputText = <<>> => ObjectIndexes(output.parts) = {}

\* C15 as claimed: the output of either analysis fails closed.
OverlayFailsClosed ==
    /\ OutputFailsClosed(orwellAnalysis, renderedOrwellOutput)
    /\ OutputFailsClosed(generalAnalysis, renderedGeneralOutput)

-----------------------------------------------------------------------------
(* extractJson on its own: applied to the texts a model can answer with,   *)
(* each the serialization of an array, bare or wrapped.                    *)

RouteMaxRecs == 2   \* longest array a response encodes

\* The snippets of the records: a word, the empty string, and strings
\* holding a comma, white space and a closing bracket or brace.
RouteSnippets ==
    { <<"a">>, <<>>, <<",", "]">>, <<"a", ",", " ", "}">> }

\* A record of the general shape and a record of the rule shape.
GeneralRecord(snippet) ==
    JObject(<< Member(KeySnippet, JString(snippet)),
               Member(KeyCategory, JString(<<"c">>)),
               Member(KeyFeedback, JString(<<"f">>)) >>)
RuleRecord(snippet) ==
    JObject(<< Member(KeySnippet, JString(snippet)),
               Member(KeyRule, JNumber(4)),
               Member(KeySuggestion, JString(<<"u">>)) >>)

\* Elements of neither shape: no object, a field missing, a field of the
\* wrong type.
MalformedElements ==
    { JNull, JNumber(5), JString(<<"a">>),
      JObject(<< Member(KeySnippet, JString(<<"a">>)),
                 Member(KeyCategory, JString(<<"c">>)) >>),
      JObject(<< Member(KeySnippet, JNumber(1)),
                 Member(KeyCategory, JString(<<"c">>)),
                 Member(KeyFeedback, JString(<<"f">>)) >>) }

RouteElements ==
    {GeneralRecord(s) : s \in RouteSnippets}
        \cup {RuleRecord(s) : s \in {<<"a">>, <<"b">>}}
        \cup MalformedElements

RouteArrays ==
    {JArray(a) : a \in UNION {[1..n -> RouteElements] : n \in 0..RouteMaxRecs}}

\* The serialization of an array with a comma in front of its closing
\* bracket.
WithTrailingComma(body) ==
    SubSeq(body, 1, Len(body) - 1) \o <<",", "]">>

\* A block between a fence with the token json and a closing fence, and a
\* block between two bare fences.
Fenced(body) == FenceOpen \o <<" ">> \o body \o <<" ">> \o Backticks
FencedBare(body) == Backticks \o <<" ">> \o body \o <<" ">> \o Backticks

\* The texts that encode an array: bare, between white space, fenced,
\* fenced inside prose, two fenced blocks, and fenced without the token;
\* each with and without the trailing comma.
ResponseTexts(array) ==
    UNION { { body,
              <<" ">> \o body \o <<" ">>,
              Fenced(body),
              <<"a", " ">> \o Fenced(body) \o <<" ", "a">>,
              Fenced(body) \o <<" ">> \o Fenced(<<"[", "1", "]">>),
              FencedBare(body) }
            : body \in {Stringify(array), WithTrailingComma(Stringify(array))} }

ExtractInit ==
    /\ PageInit
    /\ LocIdle
    /\ rawArray \in RouteArrays
    /\ responseText \in ResponseTexts(rawArray)
    /\ extracted = NotExtracted
    /\ routeAnswer = NoAnswer

\* One call of extractJson(responseText).
ExtractJson ==
    /\ ~extracted.done
    /\ extracted' = LET steps == ExtractJsonSteps(responseText)
                    IN [done |-> TRUE, candidate |-> steps.candidate,
                        jsonString |-> steps.jsonString,
                        parsed |-> steps.parsed, result |-> steps.result]
    /\ UNCHANGED <<rawArray, responseText, routeAnswer>>
    /\ UNCHANGED <<pageVars, locVars>>

ExtractNext == ExtractJson

SpecExtract == ExtractInit /\ [][ExtractNext]_vars

-----------------------------------------------------------------------------
(* Properties of extractJson                                               *)

\* The two record shapes: a string snippet with an integer rule and a
\* string suggestion, or with a string category and a string feedback.
IsRuleVariant(item) ==
    /\ GetProperty(item, KeySnippet).t = "string"
    /\ GetProperty(item, KeyRule).t = "number"
    /\ GetProperty(item, KeySuggestion).t = "string"

IsGeneralVariant(item) ==
    /\ GetProperty(item, KeySnippet).t = "string"
    /\ GetProperty(item, KeyCategory).t = "string"
    /\ GetProperty(item, KeyFeedback).t = "string"

IsAnnotationRecord(item) == IsRuleVariant(item) \/ IsGeneralVariant(item)

\* C16 as claimed: for an array of annotation records serialized with a
\* comma in front of its closing bracket inside a fenced json block, the
\* string extractJson hands to JSON.parse parses to the array.
NormalizerRoundTrip ==
    (/\ extracted.done
     /\ \A i \in 1..Len(rawArray.a) : IsAnnotationRecord(rawArray.a[i])
     /\ responseText = Fenced(WithTrailingComma(Stringify(rawArray))))
        => /\ ~extracted.parsed.threw
           /\ extracted.parsed.value = rawArray

\* Where the content of a block opened at p begins: behind the three
\* backticks, and behind the token json when it follows them.
ContentStart(text, p) ==
    IF HasAt(text, p, FenceOpen) THEN p + Len(FenceOpen) ELSE p + Len(Backticks)

\* A fenced block opens at p: three backticks, with a closing fence
\* somewhere behind the opening one.
BlockOpensAt(text, p) ==
    /\ HasAt(text, p, Backticks)
    /\ \E q \in ContentStart(text, p)..Len(text) : HasAt(text, q, Backticks)

\* The content of the first fenced block of the text, the text itself
\* when it has no fenced block.
FirstBlockOrText(text) ==
    LET opens == {p \in 1..Len(text) : BlockOpensAt(text, p)}
    IN IF opens = {} THEN text
       ELSE LET p == CHOOSE x \in opens : \A y \in opens : x <= y
                closes == {q \in ContentStart(text, p)..Len(text) :
                              HasAt(text, q, Backticks)}
                q == CHOOSE x \in closes : \A y \in closes : x <= y
            IN SubSeq(text, ContentStart(text, p), q - 1)

\* C17 as claimed: the candidate extractJson works on is the trimmed content
\* of the first fenced block, with or without the token json behind the
\* opening fence, and the trimmed text when the text has no fenced block.
CandidateIsFirstBlock ==
    extracted.done => extracted.candidate = trim(FirstBlockOrText(responseText))

\* C18 as claimed: when JSON.parse yields an array whose every element has
\* the rule shape, extractJson returns that array, element for element.
RuleShapedArrayAccepted ==
    (/\ extracted.done
     /\ ~extracted.parsed.threw
     /\ extracted.parsed.value.t = "array"
     /\ \A i \in 1..Len(extracted.parsed.value.a) :
           IsRuleVariant(extracted.parsed.value.a[i]))
        => extracted.result = Some(extracted.parsed.value.a)

\* C19: when JSON.parse yields an array with an element of neither shape,
\* at any index, extractJson returns null; a list it returns is the whole
\* parsed array, never a part of it; and for the empty array it returns the
\* empty list, not null.
ValidationAllOrNothing ==
    (/\ extracted.done
     /\ ~extracted.parsed.threw
     /\ extracted.parsed.value.t = "array")
        => /\ (\E i \in 1..Len(extracted.parsed.value.a) :
                  ~IsAnnotationRecord(extracted.parsed.value.a[i]))
                 => extracted.result = Null
           /\ ~extracted.result.null
                 => extracted.result.items = extracted.parsed.value.a
           /\ Len(extracted.parsed.value.a) = 0
                 => extracted.result = Some(<<>>)

\* C19 witness: the parsed array holds a record of the general shape and,
\* behind it, an element of neither shape, and null was returned.
ValidationAllOrNothingWitness ==
    /\ extracted.done
    /\ ~extracted.parsed.threw
    /\ extracted.parsed.value.t = "array"
    /\ Len(extracted.parsed.value.a) = 2
    /\ IsGeneralVariant(extracted.parsed.value.a[1])
    /\ ~IsAnnotationRecord(extracted.parsed.value.a[2])
    /\ extracted.result = Null

\* C20 as claimed: every record of a list extractJson returns has a
\* snippet of non-zero length.
ValidatedSnippetsNonEmpty ==
    (extracted.done /\ ~extracted.result.null)
        => \A i \in 1..Len(extracted.result.items) :
              GetProperty(extracted.result.items[i], KeySnippet).s # <<>>

-----------------------------------------------------------------------------
(* The POST handlers of the routes and the page's handling of their        *)
(* response: api/analyze/route.ts, api/analyze-general/route.ts and the    *)
(* general route written for the new SDK (src/unnamed/part_000).           *)

\* The handlers, and the analysis each one serves: the page fetches
\* /api/analyze for "orwell" and /api/analyze-general for "general"; either
\* general handler can be the one deployed.
Handlers == {"analyze", "analyze-general", "part_000"}
Serves(handler) == IF handler = "analyze" THEN "orwell" ELSE "general"

TextRequiredMessage == "Text input is required"
EmptyResponseMessage == "Empty response text from AI model."
ParseFailureMessage == "Failed to parse valid JSON analysis from AI response."
UnexpectedErrorMessage == "An unexpected error occurred on the server."

\* NextResponse.json({ error }, { status })
ErrorAnswer(handler, status, error) ==
    [done |-> TRUE, handler |-> handler, status |-> status, error |-> error,
     hasRawResponse |-> FALSE, rawResponse |-> <<>>, body |-> JUndefined]

\* NextResponse.json({ error: "Failed to parse ...", rawResponse }, 500)
ParseFailureAnswer(handler, text) ==
    [done |-> TRUE, handler |-> handler, status |-> 500,
     error |-> ParseFailureMessage,
     hasRawResponse |-> TRUE, rawResponse |-> text, body |-> JUndefined]

\* NextResponse.json(analysisData)
OkAnswer(handler, analysisData) ==
    [done |-> TRUE, handler |-> handler, status |-> 200, error |-> "",
     hasRawResponse |-> FALSE, rawResponse |-> <<>>, body |-> analysisData]

\* `const analysisData = ...`: analyze/route.ts:273-274 and part_000:288-289
\* call JSON.parse(responseText), which can throw; analyze-general/
\* route.ts:266 calls extractJson(responseText), which returns null instead.
PostParses(handler, modelText) ==
    IF handler = "analyze-general"
    THEN LET r == extractJson(modelText)
         IN [threw |-> FALSE,
             value |-> IF r.null THEN JNull ELSE JArray(r.items)]
    ELSE JSONParse(modelText)

\* POST(request) for a configured API key and a model that answered with
\* the text modelText: the check of the request's text, the check of an
\* empty response text, the parse, and the catch of what the parse throws
\* (a SyntaxError, whose message names no safety filter: status 500).
POST(handler, text, modelText) ==
    IF trim(text) = <<>>
    THEN ErrorAnswer(handler, 400, TextRequiredMessage)
    ELSE IF modelText = <<>>
    THEN ErrorAnswer(handler, 500, EmptyResponseMessage)
    ELSE LET analysisData == PostParses(handler, modelText)
         IN IF analysisData.threw
            THEN ErrorAnswer(handler, 500, UnexpectedErrorMessage)
            ELSE IF analysisData.value = JNull
            THEN ParseFailureAnswer(handler, modelText)
            ELSE OkAnswer(handler, analysisData.value)

\* response.ok
ResponseOk(answer) == answer.status >= 200 /\ answer.status <= 299

\* The records the page maps over, page.tsx:127-132: every element of the
\* array, with the snippet it carries as a JSON value (undefined when the
\* element has none).
PageItems(array) ==
    [i \in 1..Len(array.a) |-> [snippet |-> GetProperty(array.a[i], KeySnippet)]]

InvalidFormatMessage(kind) ==
    IF kind = "orwell" THEN "Invalid Orwell analysis format received."
    ELSE "Invalid General analysis format received."

\* What the handler of the page does with a response, page.tsx:107-126 and
\* 170-189: the message it throws, or the array of await response.json(),
\* the parse of the body the route serialized.
FetchOutcome(kind, answer) ==
    IF ~ResponseOk(answer)
    THEN [ok |-> FALSE, message |-> answer.error, rawData |-> <<>>]
    ELSE LET rawData == JSONParse(Stringify(answer.body)).value
         IN IF rawData.t # "array"
            THEN [ok |-> FALSE, message |-> InvalidFormatMessage(kind),
                  rawData |-> <<>>]
            ELSE [ok |-> TRUE, message |-> "", rawData |-> PageItems(rawData)]

-----------------------------------------------------------------------------
(* A run from the click to the stored result, through the route.           *)

\* The elements of the arrays the model answers with: a record of each
\* shape, and two elements of neither shape.
RunElements ==
    { GeneralRecord(<<"a">>), RuleRecord(<<"a">>), JNull,
      JObject(<< Member(KeySnippet, JString(<<"a">>)) >>) }

RunArrays ==
    {JArray(a) : a \in UNION {[1..n -> RunElements] : n \in 0..RouteMaxRecs}}

\* The response texts that encode an array: bare, in a json fence, and
\* with a comma in front of the closing bracket.
RunResponseTexts(array) ==
    { Stringify(array), Fenced(Stringify(array)),
      WithTrailingComma(Stringify(array)) }

\* The response texts that encode no array: nothing, white space, an
\* object, null, a number, and a text cut short.
NonArrayTexts ==
    { <<>>, <<" ">>, <<"{", "}">>, <<"n", "u", "l", "l">>, <<"5">>,
      <<"[", "1">> }

RoutesInit ==
    /\ PageInit
    /\ LocIdle
    /\ \/ rawArray \in RunArrays /\ responseText \in RunResponseTexts(rawArray)
       \/ rawArray = JArray(<<>>) /\ responseText \in NonArrayTexts
    /\ extracted = NotExtracted
    /\ routeAnswer = NoAnswer

\* The route answers the request in flight.
Post(handler) ==
    /\ pending.route = Serves(handler)
    /\ ~routeAnswer.done
    /\ routeAnswer' = POST(handler, pending.text, responseText)
    /\ UNCHANGED <<rawArray, responseText, extracted>>
    /\ UNCHANGED <<pageVars, locVars>>

\* handleOrwellAnalyze from the response on, page.tsx:107-145
OrwellReceives(time) ==
    /\ routeAnswer.done
    /\ LET outcome == FetchOutcome("orwell", routeAnswer)
       IN IF outcome.ok
          THEN OrwellSucceeds(outcome.rawData, time) /\ UNCHANGED minted
          ELSE OrwellFails(outcome.message)
    /\ routeAnswer' = NoAnswer
    /\ UNCHANGED <<rawArray, responseText, extracted>>
    /\ UNCHANGED locVars

\* handleGeneralAnalyze from the response on, page.tsx:170-208
GeneralReceives(time) ==
    /\ routeAnswer.done
    /\ LET outcome == FetchOutcome("general", routeAnswer)
       IN IF outcome.ok
          THEN GeneralSucceeds(outcome.rawData, time) /\ UNCHANGED minted
          ELSE GeneralFails(outcome.message)
    /\ routeAnswer' = NoAnswer
    /\ UNCHANGED <<rawArray, responseText, extracted>>
    /\ UNCHANGED locVars

RoutesNext ==
    \/ SetInputText(<<"a">>) /\ UNCHANGED <<locVars, routeVars>>
    \/ HandleOrwellAnalyze /\ UNCHANGED <<locVars, routeVars>>
    \/ HandleGeneralAnalyze /\ UNCHANGED <<locVars, routeVars>>
    \/ \E handler \in Handlers : Post(handler)
    \/ \E time \in Times : OrwellReceives(time)
    \/ \E time \in Times : GeneralReceives(time)

SpecRoutes == RoutesInit /\ [][RoutesNext]_vars

\* The array holds records of the shape of the analysis the handler serves.
IsAnnotationArrayFor(handler, array) ==
    \A i \in 1..Len(array.a) :
        IF handler = "analyze" THEN IsRuleVariant(array.a[i])
        ELSE IsGeneralVariant(array.a[i])

\* The response text is the array in a json fence, or the array with a
\* comma in front of its closing bracket.
WrappedResponse ==
    \/ responseText = Fenced(Stringify(rawArray))
    \/ responseText = WithTrailingComma(Stringify(rawArray))

\* C21: every handler answers a valid annotation array of its kind, wrapped
\* in a json fence or carrying a trailing comma, with a success response
\* whose body is that array.
WrappedArrayAnsweredOk ==
    (/\ routeAnswer.done
     /\ WrappedResponse
     /\ IsAnnotationArrayFor(routeAnswer.handler, rawArray))
        => (ResponseOk(routeAnswer) /\ routeAnswer.body = rawArray)

\* The response text fails extraction or validation: it is empty, JSON.parse
\* throws on what the normalizer makes of it, the value is no array, or an
\* element of the array has neither record shape.
PayloadFails(text) ==
    LET steps == ExtractJsonSteps(text)
    IN \/ steps.candidate = <<>>
       \/ steps.parsed.threw
       \/ steps.parsed.value.t # "array"
       \/ \E i \in 1..Len(steps.parsed.value.a) :
             ~IsAnnotationRecord(steps.parsed.value.a[i])

\* C22: for a response text that fails extraction or validation the route
\* answers with the parse-failure error carrying the raw response text, and
\* the page ends the run with an error and a null annotation list.
FailedPayloadNeverDelivered ==
    [][(routeAnswer.done /\ PayloadFails(responseText))
        => /\ routeAnswer.error = ParseFailureMessage
           /\ routeAnswer.hasRawResponse
           /\ routeAnswer.rawResponse = responseText
           /\ (routeAnswer' = NoAnswer)
                => IF Serves(routeAnswer.handler) = "orwell"
                   THEN orwellAnalysis'.null /\ orwellError' # NoError
                   ELSE generalAnalysis'.null /\ generalError' # NoError]_vars

\* C23: in a sequence the locator returned, the record an annotated span
\* carries is the first record of the list, in list order, among those
\* whose snippets are equal to it case-insensitively: no earlier record has
\* such a snippet, so a later one of them never appears.
FirstRecordWinsAmongEqualSnippets ==
    (locResult.done /\ ~locData.null)
        => \A i \in ObjectIndexes(locResult.parts) :
              \A r \in 1..Len(locData.items) :
                 locData.items[r].id = locResult.parts[i].id
                    => \A e \in 1..(r - 1) :
                          toLowerCase(locData.items[e].snippet)
                             # toLowerCase(locData.items[r].snippet)

\* C23 witness: two records with snippets that differ in casing only, and a
\* located occurrence that carries the first of them.
FirstRecordWinsAmongEqualSnippetsWitness ==
    /\ locResult.done /\ ~locResult.diverges /\ ~locData.null
    /\ \E r1, r2 \in 1..Len(locData.items) :
          /\ r1 < r2
          /\ locData.items[r1].snippet # locData.items[r2].snippet
          /\ toLowerCase(locData.items[r1].snippet)
                = toLowerCase(locData.items[r2].snippet)
          /\ \E i \in ObjectIndexes(locResult.parts) :
                /\ locResult.parts[i].id = locData.items[r1].id
                /\ locResult.parts[i].snippet = locData.items[r2].snippet

\* C24: for every text and every list whose records each have a string
\* snippet, the match loop of renderHighlightedText ends: no call of the
\* locator comes back to a state of the loop it was in before.
MatchLoopTerminates ==
    locResult.done => ~locResult.diverges

\* C25: in the state in which a run's annotation list, not empty, is first
\* displayed, the text the locator overlays it on (the input text of that state) is
\* the text that was sent in the run's request.
OverlayOnSubmittedText ==
    [][\A sent \in {pending} :
          (/\ sent.route # "none"
           /\ pending' = NoRequest
           /\ IF sent.route = "orwell"
              THEN ~orwellAnalysis'.null /\ orwellAnalysis'.items # <<>>
              ELSE ~generalAnalysis'.null /\ generalAnalysis'.items # <<>>)
             => inputText' = sent.text]_vars

\* The list a run of the kind has just stored.
StoredList ==
    IF activeAnalysisView = "orwell" THEN orwellAnalysis ELSE generalAnalysis

\* C26: in the state in which a run's annotation list is first stored, no
\* id of the new list is in the set of resolved ids.
NewListHasNoResolvedId ==
    lastEvent = "stored" => IdsOf(StoredList) \cap resolvedIds = {}

\* C26 witness: a list with records has just been stored while the set of
\* resolved ids holds an id that was resolved during the run.
NewListHasNoResolvedIdWitness ==
    /\ lastEvent = "stored"
    /\ StoredList.items # <<>>
    /\ resolvedIds # {}

\* C27: a step that changes the set of resolved ids is a step of
\* handleResolve, of handleUnresolve, or of the reset an analyze handler
\* begins with; a step that edits the input text, switches the tab or
\* completes a request, with a list or with an error, leaves the set as it
\* was.
ResolvedIdsFrame ==
    [][resolvedIds' # resolvedIds
          => lastEvent' \in {"resolved", "unresolved", "wiped"}]_vars

\* C27 witness: a run has ended with an error and an id that was resolved
\* before is still in the set.
ResolvedIdsFrameWitness ==
    /\ lastEvent = "other"
    /\ resolvedIds # {}
    /\ orwellError \in FailureMessages \/ generalError \in FailureMessages

\* C28: at most one analysis request is in flight.  In every state the two
\* loading flags are not both set and the set flag is that of the request
\* in flight; and while a flag is set no step starts a run: the request in
\* flight stays the same until it ends.
OneRequestInFlight ==
    /\ [](/\ ~(isOrwellLoading /\ isGeneralLoading)
          /\ isOrwellLoading <=> pending.route = "orwell"
          /\ isGeneralLoading <=> pending.route = "general")
    /\ [][(isOrwellLoading \/ isGeneralLoading)
             => pending' \in {pending, NoRequest}]_vars

\* C28 witness: a request is in flight, its flag is set and the user has
\* changed the input text since the click.
OneRequestInFlightWitness ==
    /\ isGeneralLoading
    /\ pending.route = "general"
    /\ inputText # pending.text

-----------------------------------------------------------------------------
(* The runs of the page when every fetch settles: the promise of a request *)
(* in flight resolves or rejects, and the continuation of the handler that *)
(* awaits it is then run by the event loop.                                *)

\* The continuation of handleOrwellAnalyze after its await, on any path.
RunOrwellSettles ==
    \/ \E rawData \in Payloads, time \in Times :
          /\ OrwellSucceeds(rawData, time)
          /\ minted' = minted \cup IdsOf(orwellAnalysis')
          /\ UNCHANGED <<locVars, routeVars>>
    \/ \E message \in FailureMessages :
          OrwellFails(message) /\ UNCHANGED <<locVars, routeVars>>

\* The continuation of handleGeneralAnalyze after its await, on any path.
RunGeneralSettles ==
    \/ \E rawData \in Payloads, time \in Times :
          /\ GeneralSucceeds(rawData, time)
          /\ minted' = minted \cup IdsOf(generalAnalysis')
          /\ UNCHANGED <<locVars, routeVars>>
    \/ \E message \in FailureMessages :
          GeneralFails(message) /\ UNCHANGED <<locVars, routeVars>>

SpecRunsFair ==
    /\ Init
    /\ [][RunsNext]_vars
    /\ WF_vars(RunOrwellSettles)
    /\ WF_vars(RunGeneralSettles)

\* C29: when every fetch settles, a run that has started eventually ends
\* with its loading flag cleared, and the analyze buttons, disabled while a
\* flag is set, are eventually enabled again.
RunEventuallyEnds ==
    /\ isOrwellLoading ~> ~isOrwellLoading
    /\ isGeneralLoading ~> ~isGeneralLoading
    /\ ~ButtonsEnabled ~> ButtonsEnabled

\* C29 witness: a run has ended on a failure path with its flag cleared and
\* the buttons enabled.
RunEventuallyEndsWitness ==
    /\ orwellError \in FailureMessages
    /\ orwellAnalysis.null
    /\ ~isOrwellLoading
    /\ ButtonsEnabled
    /\ pending = NoRequest

\* Of a list and an error message, exactly one is not null.
ExactlyOneNonNull(analysis, error) == analysis.null # (error = NoError)

\* In every state, for each kind of analysis: the list and the error
\* message are not both non-null, and both are null while the run of the
\* kind is in flight.
ListAndErrorExclusive ==
    /\ orwellAnalysis.null \/ orwellError = NoError
    /\ generalAnalysis.null \/ generalError = NoError
    /\ isOrwellLoading => (orwellAnalysis.null /\ orwellError = NoError)
    /\ isGeneralLoading => (generalAnalysis.null /\ generalError = NoError)

\* C30 as claimed: the list and the error of a kind are never both
\* non-null, both are null while its run is in flight, and once its run
\* has ended exactly one of them is non-null in every state until the next
\* run of the kind begins.
ListXorErrorOnceRunEnded ==
    /\ []ListAndErrorExclusive
    /\ [][/\ (/\ ~isOrwellLoading /\ ~isOrwellLoading'
              /\ ExactlyOneNonNull(orwellAnalysis, orwellError))
             => orwellAnalysis'.null # (orwellError' = NoError)
          /\ (/\ ~isGeneralLoading /\ ~isGeneralLoading'
              /\ ExactlyOneNonNull(generalAnalysis, generalError))
             => generalAnalysis'.null # (generalError' = NoError)]_vars

\* C30, amended: the list and the error of a kind are never both non-null
\* and both are null while its run is in flight; the step that ends the run
\* leaves exactly one of them non-null, and so does an empty-input click of
\* the kind; exactly one stays non-null until the next run of the kind
\* begins or the analyze button of the other kind is clicked on an empty
\* input, a click that makes both null.
ListXorErrorUntilCleared ==
    /\ []ListAndErrorExclusive
    /\ [][/\ (isOrwellLoading /\ ~isOrwellLoading')
             => orwellAnalysis'.null # (orwellError' = NoError)
          /\ (isGeneralLoading /\ ~isGeneralLoading')
             => generalAnalysis'.null # (generalError' = NoError)
          /\ (orwellError' = EmptyInputMessage) => orwellAnalysis'.null
          /\ (generalError' = EmptyInputMessage) => generalAnalysis'.null
          /\ (/\ ~isOrwellLoading /\ ~isOrwellLoading'
              /\ ExactlyOneNonNull(orwellAnalysis, orwellError)
              /\ orwellAnalysis'.null = (orwellError' = NoError))
             => /\ generalError' = EmptyInputMessage
                /\ orwellAnalysis'.null /\ orwellError' = NoError
          /\ (/\ ~isGeneralLoading /\ ~isGeneralLoading'
              /\ ExactlyOneNonNull(generalAnalysis, generalError)
              /\ generalAnalysis'.null = (generalError' = NoError))
             => /\ orwellError' = EmptyInputMessage
                /\ generalAnalysis'.null /\ generalError' = NoError]_vars

\* C30 witness: an Orwell run has ended with a list, and after a click on
\* the general analyze button with an empty input neither the Orwell list
\* nor the Orwell error is left.
ListXorErrorUntilClearedWitness ==
    /\ \E id \in minted : id[1] = "orwell"
    /\ ~isOrwellLoading
    /\ orwellAnalysis.null
    /\ orwellError = NoError
    /\ generalError = EmptyInputMessage

====
